---- MODULE Spec2Model ----
(***************************************************************************)
(* Model of setup.py of higlass-python: the jsdeps command (class NPM) and  *)
(* the js_prerelease decorator that runs it before build_py, egg_info and  *)
(* sdist.                                                                  *)
(*                                                                         *)
(* One behaviour is one `python setup.py <commands>` process over a        *)
(* checkout found in any state (fs, IS_REPO).  The process runs the        *)
(* commands of its command line in order through run_command, which        *)
(* runs a command once per process (have_run).  The commands in progress   *)
(* form a stack of frames: the wrapped run of build_py and of sdist calls  *)
(* run_command('egg_info'), itself a decorated command, and `build` runs   *)
(* build_py as a sub-command.  An exception that leaves a decorated run is *)
(* caught by none of its callers and ends the process.                     *)
(*                                                                         *)
(* Environment: the npm executable either can be started or cannot.  When  *)
(* it cannot, every check_call on it raises FileNotFoundError and nothing  *)
(* on disk changes.  When it can, each check_call on it (`npm --version`   *)
(* included, each time it is called) ends with a return code of its own;   *)
(* `npm install` may leave any of node_modules and the target files        *)
(* behind, `npm run build` may write or remove the target files.           *)
(***************************************************************************)
EXTENDS Integers, Sequences, FiniteSets, TLC

VARIABLES
    IS_REPO,            \* setup.py:19, fixed when the script is entered
    system,             \* platform.system()
    os_environ,         \* os.environ of the setup.py process
    npm_installed,      \* the npm executable can be started
    fs,                 \* the paths that exist on disk
    pc,                 \* state of the process: idle, run, done, raised
    cmdline,            \* commands of the command line still to run
    command,            \* the command of the command line being run
    have_run,           \* Distribution.have_run
    stack,              \* frames of the commands in progress, innermost last
    calls,              \* NPM.run entries, wrapped runs, file operations
    check_calls,        \* subprocess.check_call invocations of the process
    mark,               \* Len(check_calls) when the latest NPM.run was entered
    logs,               \* distutils log records of the process
    has_npm,            \* local of NPM.run, setup.py:125
    env,                \* local of NPM.run, setup.py:132-133
    node_modules_exists,\* local of should_run_npm_install, setup.py:121
    npm_run,            \* latest NPM.run: none, active, returned, raised
    npm_exc,            \* the exception that left the latest NPM.run
    raised,             \* the exception that ended the process
    checked             \* result of the latest os.path.exists sweep over targets

vars == << IS_REPO, system, os_environ, npm_installed, fs, pc, cmdline, command,
           have_run, stack, calls, check_calls, mark, logs, has_npm, env,
           node_modules_exists, npm_run, npm_exc, raised, checked >>

Range(s) == { s[i] : i \in DOMAIN s }

----------------------------------------------------------------------------
(* Module-level names of setup.py *)

NODE_ROOT == "js"

node_modules == "js/node_modules"

targets == << "higlass/static/extension.js", "higlass/static/index.js" >>

NPM_PATH == << "js/node_modules/.bin" >> \o os_environ.PATH

cmdclass ==
    [ build_py |-> [ decorated |-> TRUE,  strict |-> FALSE ],
      egg_info |-> [ decorated |-> TRUE,  strict |-> FALSE ],
      sdist    |-> [ decorated |-> TRUE,  strict |-> TRUE  ],
      jsdeps   |-> [ decorated |-> FALSE, strict |-> FALSE ] ]

\* the commands a command line is made of here: those of cmdclass, and
\* `build`, a stock command that runs build_py as a sub-command
Commands == DOMAIN cmdclass \cup { "build" }

strict(c) == c \in DOMAIN cmdclass /\ cmdclass[c].strict

decorated(c) == c \in DOMAIN cmdclass /\ cmdclass[c].decorated

\* the wrapped run of build_py (include_package_data, setup.py:172) and of
\* sdist calls self.run_command('egg_info')
runs_egg_info(c) == c \in { "build_py", "sdist" }

----------------------------------------------------------------------------
(* Exceptions and subprocesses *)

NoError == [ type |-> "None", args |-> << >> ]

Error(type, args) == [ type |-> type, args |-> args ]

get_npm_name(sys) == IF sys = "Windows" THEN "npm.cmd" ELSE "npm"

ReturnCodes == { "0", "1" }

\* subprocess.check_call(argv): the exception it raises, NoError if none
check_call(argv, installed, rc) ==
    IF ~installed THEN Error("FileNotFoundError", argv)
    ELSE IF rc = "0" THEN NoError
    ELSE Error("CalledProcessError", argv)

\* what one check_call leaves in check_calls.  No env= is passed at any call
\* site, so the child inherits os.environ; cwd is "." when none is given.
Invocation(argv, cwd, err) ==
    [ args |-> argv, cwd |-> cwd, env |-> os_environ, error |-> err.type ]

Log(level, msg, args) == [ level |-> level, msg |-> msg, args |-> args ]

----------------------------------------------------------------------------
(* Decisions of the code, as operators over what they read *)

\* NPM.has_npm: True iff this `npm --version` raises nothing
NPM_has_npm(installed, rc) ==
    check_call(<< get_npm_name(system), "--version" >>, installed, rc) = NoError

\* variant of should_run_npm_install that does not look at node_modules
should_run_npm_install_always(installed, rc, exists) ==
    NPM_has_npm(installed, rc)

\* NPM.should_run_npm_install, given the existence of node_modules
should_run_npm_install(installed, rc, exists) ==
    NPM_has_npm(installed, rc) /\ ~exists

\* variant of nothing_to_do that does not look at IS_REPO
nothing_to_do_anywhere(is_repo, files) ==
    \A i \in DOMAIN targets : targets[i] \in files

\* js_prerelease, line 58: the wrapped command runs without jsdeps
nothing_to_do(is_repo, files) ==
    ~is_repo /\ \A i \in DOMAIN targets : targets[i] \in files

\* js_prerelease, line 66: the targets that do not exist, in order
missing_targets(files) ==
    SelectSeq(targets, LAMBDA t : t \notin files)

\* variant of must_reraise with `and` for `or`
must_reraise_and(is_strict, missing) ==
    is_strict /\ missing # << >>

\* variant of must_reraise that forgets the missing files
must_reraise_strict_only(is_strict, missing) ==
    is_strict

\* js_prerelease, line 67
must_reraise(is_strict, missing) ==
    is_strict \/ missing # << >>

\* NPM.run, lines 153-156.  The second literal of the guidance text is a
\* statement of its own (line 156) and is not appended.
missing_msg(t, hn) ==
    << "Missing file: ", t >>
        \o (IF ~hn THEN << "\nnpm is required to build a development version " >>
            ELSE << >>)

\* variant of verify_targets that looks at the first target only
verify_targets_first_only(files, hn) ==
    IF targets[1] \in files THEN NoError
    ELSE Error("ValueError", missing_msg(targets[1], hn))

\* variant of verify_targets that reports the last absent target
verify_targets_last(files, hn) ==
    LET absent == SelectSeq(targets, LAMBDA t : t \notin files)
    IN  IF absent = << >> THEN NoError
        ELSE Error("ValueError", missing_msg(absent[Len(absent)], hn))

\* NPM.run, lines 151-157: the loop raises at the first target that is absent
verify_targets(files, hn) ==
    LET absent == SelectSeq(targets, LAMBDA t : t \notin files)
    IN  IF absent = << >> THEN NoError
        ELSE Error("ValueError", missing_msg(Head(absent), hn))

----------------------------------------------------------------------------
(* Frames *)

\* a command entered through run_command.  exc is the e of line 65; ran
\* counts the wrapped runs started by the frame; tried tells what
\* run_command('jsdeps') did for it (no: not called, ran: NPM.run executed,
\* skipped: have_run); checked is the latest existence check of the frame.
Frame(c) ==
    [ cmd |-> c,
      pc |-> IF decorated(c) THEN "entry" ELSE IF c = "jsdeps" THEN "NPM.run" ELSE "sub",
      exc |-> NoError, ran |-> 0, tried |-> "no", checked |-> "none" ]

Top == stack[Len(stack)]

AtTop(c, p) == pc = "run" /\ stack # << >> /\ Top.cmd = c /\ Top.pc = p

DecoratedAt(p) == pc = "run" /\ stack # << >> /\ decorated(Top.cmd) /\ Top.pc = p

SetTop(stk, f) == [ stk EXCEPT ![Len(stk)] = f ]

\* Distribution.run_command(c) called by the top frame, which waits at
\* `waiting` while c runs and goes on at `after` when c has run before
RunCommand(stk, c, waiting, after) ==
    IF c \in have_run
    THEN SetTop(stk, [ stk[Len(stk)] EXCEPT !.pc = after ])
    ELSE Append(SetTop(stk, [ stk[Len(stk)] EXCEPT !.pc = waiting ]), Frame(c))

\* where a frame goes on when the command it waited for has returned
AfterCall(p) ==
    CASE p = "try" -> "command.run"
      [] p = "wrapped" -> "finish"
      [] p = "wrapped_direct" -> "return"
      [] p = "sub_wait" -> "return"
      [] OTHER -> p

----------------------------------------------------------------------------
(* Initial states *)

MaxCommands == 2

CmdLines == UNION { [ 1..n -> Commands ] : n \in 1..MaxCommands }

Paths == { << "/usr/bin" >> }

Init ==
    /\ IS_REPO \in BOOLEAN
    /\ system \in { "Linux", "Windows" }
    /\ os_environ \in { [ PATH |-> p ] : p \in Paths }
    /\ npm_installed \in BOOLEAN
    /\ fs \in SUBSET (Range(targets) \cup { node_modules })
    /\ pc = "idle"
    /\ cmdline = << >>
    /\ command = "none"
    /\ have_run = {}
    /\ stack = << >>
    /\ calls = << >>
    /\ check_calls = << >>
    /\ mark = 0
    /\ logs = << >>
    /\ has_npm = FALSE
    /\ env = os_environ
    /\ node_modules_exists = FALSE
    /\ npm_run = "none"
    /\ npm_exc = NoError
    /\ raised = NoError
    /\ checked = "none"

world == << IS_REPO, system, os_environ, npm_installed >>

npm_locals == << has_npm, env, node_modules_exists >>

----------------------------------------------------------------------------
(* Actions: the process and Distribution.run_command *)

\* `python setup.py cl`: module level of setup.py, lines 14-25
Invoke(cl) ==
    /\ pc = "idle"
    /\ pc' = "run"
    /\ cmdline' = cl
    /\ command' = "none"
    /\ have_run' = {}
    /\ stack' = << >>
    /\ calls' = << >>
    /\ check_calls' = << >>
    /\ mark' = 0
    /\ logs' = << Log("info", "setup.py entered", << >>),
                  Log("info", "$PATH=%s", os_environ.PATH) >>
    /\ has_npm' = FALSE
    /\ env' = os_environ
    /\ node_modules_exists' = FALSE
    /\ npm_run' = "none"
    /\ npm_exc' = NoError
    /\ raised' = NoError
    /\ checked' = "none"
    /\ UNCHANGED << world, fs >>

\* Distribution.run_commands: run_command on the next command of the line
RunCommands ==
    /\ pc = "run"
    /\ stack = << >>
    /\ IF cmdline = << >>
       THEN pc' = "done" /\ UNCHANGED << cmdline, command, stack >>
       ELSE /\ command' = Head(cmdline)
            /\ cmdline' = Tail(cmdline)
            /\ stack' = IF Head(cmdline) \in have_run THEN << >>
                        ELSE << Frame(Head(cmdline)) >>
            /\ pc' = pc
    /\ UNCHANGED << world, fs, have_run, calls, check_calls, mark, logs,
                    npm_locals, npm_run, npm_exc, raised, checked >>

\* run_command: cmd_obj.run() has returned; have_run[command] = 1 and the
\* caller goes on
Return ==
    /\ pc = "run"
    /\ stack # << >>
    /\ Top.pc = "return"
    /\ have_run' = have_run \cup { Top.cmd }
    /\ stack' = LET n == Len(stack)
                    rest == SubSeq(stack, 1, n - 1)
                IN  IF n = 1 THEN << >>
                    ELSE SetTop(rest, [ rest[n - 1] EXCEPT
                                          !.pc = AfterCall(rest[n - 1].pc) ])
    /\ UNCHANGED << world, fs, pc, cmdline, command, calls, check_calls, mark,
                    logs, npm_locals, npm_run, npm_exc, raised, checked >>

\* build.run: its sub-command build_py
BuildRun ==
    /\ AtTop("build", "sub")
    /\ stack' = RunCommand(stack, "build_py", "sub_wait", "return")
    /\ UNCHANGED << world, fs, pc, cmdline, command, have_run, calls,
                    check_calls, mark, logs, npm_locals, npm_run, npm_exc,
                    raised, checked >>

----------------------------------------------------------------------------
(* Actions: js_prerelease.DecoratedCommand.run *)

\* lines 57-58, condition true: targets exist outside a repository
DecoratedRunDirect ==
    /\ DecoratedAt("entry")
    /\ nothing_to_do(IS_REPO, fs)
    /\ checked' = "all_present"
    /\ stack' = SetTop(stack, [ Top EXCEPT !.pc = "direct",
                                           !.checked = "all_present" ])
    /\ UNCHANGED << world, fs, pc, cmdline, command, have_run, calls,
                    check_calls, mark, logs, npm_locals, npm_run, npm_exc,
                    raised >>

\* lines 60-61: command.run(self); return
DecoratedRunDirectCommand ==
    /\ DecoratedAt("direct")
    /\ calls' = Append(calls, "command.run")
    /\ LET stk == SetTop(stack, [ Top EXCEPT !.ran = @ + 1 ])
       IN  stack' = IF runs_egg_info(Top.cmd)
                    THEN RunCommand(stk, "egg_info", "wrapped_direct", "return")
                    ELSE SetTop(stk, [ stk[Len(stk)] EXCEPT !.pc = "return" ])
    /\ UNCHANGED << world, fs, pc, cmdline, command, have_run, check_calls,
                    mark, logs, npm_locals, npm_run, npm_exc, raised, checked >>

\* lines 57-58, condition false, and 63-64: run_command('jsdeps').
\* `not IS_REPO and all(...)` looks at the files only outside a repository.
DecoratedRunJsdeps ==
    /\ DecoratedAt("entry")
    /\ ~nothing_to_do(IS_REPO, fs)
    /\ checked' = IF IS_REPO THEN checked ELSE "some_missing"
    /\ LET stk == SetTop(stack,
                    [ Top EXCEPT !.checked = IF IS_REPO THEN @ ELSE "some_missing",
                                 !.tried = IF "jsdeps" \in have_run
                                           THEN "skipped" ELSE "ran" ])
       IN  stack' = RunCommand(stk, "jsdeps", "try", "command.run")
    /\ UNCHANGED << world, fs, pc, cmdline, command, have_run, calls,
                    check_calls, mark, logs, npm_locals, npm_run, npm_exc,
                    raised >>

\* lines 65-74
DecoratedRunExcept ==
    /\ DecoratedAt("except")
    /\ LET missing == missing_targets(fs)
           seen    == IF missing = << >> THEN "all_present" ELSE "some_missing"
       IN  /\ checked' = seen
           /\ IF must_reraise(strict(Top.cmd), missing)
              THEN /\ logs' = logs
                        \o << Log("warn", "rebuilding js and css failed", << >>) >>
                        \o (IF missing # << >>
                            THEN << Log("error", "missing files: %s", missing) >>
                            ELSE << >>)
                   /\ raised' = Top.exc
                   /\ pc' = "raised"
                   /\ stack' = SetTop(stack, [ Top EXCEPT !.pc = "raised",
                                                          !.checked = seen ])
              ELSE /\ logs' = logs
                        \o << Log("warn",
                                  "rebuilding js and css failed (not a problem)",
                                  << >>),
                              Log("warn", "str(e)", Top.exc.args) >>
                   /\ raised' = raised
                   /\ pc' = pc
                   /\ stack' = SetTop(stack, [ Top EXCEPT !.pc = "command.run",
                                                          !.checked = seen ])
    /\ UNCHANGED << world, fs, cmdline, command, have_run, calls, check_calls,
                    mark, npm_locals, npm_run, npm_exc >>

\* line 75: command.run(self)
DecoratedRunCommand ==
    /\ DecoratedAt("command.run")
    /\ calls' = Append(calls, "command.run")
    /\ LET stk == SetTop(stack, [ Top EXCEPT !.ran = @ + 1 ])
       IN  stack' = IF runs_egg_info(Top.cmd)
                    THEN RunCommand(stk, "egg_info", "wrapped", "finish")
                    ELSE SetTop(stk, [ stk[Len(stk)] EXCEPT !.pc = "finish" ])
    /\ UNCHANGED << world, fs, pc, cmdline, command, have_run, check_calls,
                    mark, logs, npm_locals, npm_run, npm_exc, raised, checked >>

\* line 76: update_package_data(self.distribution)
DecoratedRunFinish ==
    /\ DecoratedAt("finish")
    /\ calls' = Append(calls, "update_package_data")
    /\ stack' = SetTop(stack, [ Top EXCEPT !.pc = "return" ])
    /\ UNCHANGED << world, fs, pc, cmdline, command, have_run, check_calls,
                    mark, logs, npm_locals, npm_run, npm_exc, raised, checked >>

----------------------------------------------------------------------------
(* Actions: NPM.run *)

\* An exception leaves NPM.run: into the except clause of the decorated run
\* that called run_command('jsdeps'), or out of the process
Raise(err) ==
    /\ npm_run' = "raised"
    /\ npm_exc' = err
    /\ LET n == Len(stack)
       IN  IF n > 1 /\ stack[n - 1].pc = "try"
           THEN /\ stack' = SetTop(SubSeq(stack, 1, n - 1),
                                   [ stack[n - 1] EXCEPT !.pc = "except",
                                                         !.exc = err ])
                /\ UNCHANGED << pc, raised >>
           ELSE /\ stack' = SetTop(stack, [ Top EXCEPT !.pc = "raised" ])
                /\ pc' = "raised"
                /\ raised' = err

\* lines 125-135
NPMRunHasNpm ==
    /\ AtTop("jsdeps", "NPM.run")
    /\ \E rc \in ReturnCodes :
         LET argv == << get_npm_name(system), "--version" >>
             err  == check_call(argv, npm_installed, rc)
         IN  /\ check_calls' = Append(check_calls, Invocation(argv, ".", err))
             /\ has_npm' = NPM_has_npm(npm_installed, rc)
             /\ logs' = IF ~NPM_has_npm(npm_installed, rc)
                        THEN Append(logs, Log("error", "npm unavailable", << >>))
                        ELSE logs
    /\ mark' = Len(check_calls)
    /\ npm_run' = "active"
    /\ npm_exc' = NoError
    /\ calls' = Append(calls, "jsdeps")
    /\ env' = [ os_environ EXCEPT !.PATH = NPM_PATH ]
    /\ node_modules_exists' = FALSE
    /\ stack' = SetTop(stack, [ Top EXCEPT !.pc = "install?" ])
    /\ UNCHANGED << world, fs, pc, cmdline, command, have_run, raised, checked >>

\* line 137 false: should_run_npm_install() (lines 121-122) says no
NPMRunSkipInstall ==
    /\ AtTop("jsdeps", "install?")
    /\ \E rc \in ReturnCodes :
         /\ ~should_run_npm_install(npm_installed, rc, node_modules \in fs)
         /\ LET argv == << get_npm_name(system), "--version" >>
                err  == check_call(argv, npm_installed, rc)
            IN  check_calls' = Append(check_calls, Invocation(argv, ".", err))
    /\ node_modules_exists' = (node_modules \in fs)
    /\ stack' = SetTop(stack, [ Top EXCEPT !.pc = "build" ])
    /\ UNCHANGED << world, fs, pc, cmdline, command, have_run, calls, mark,
                    logs, has_npm, env, npm_run, npm_exc, raised, checked >>

\* lines 137-145: `npm install`, then os.utime on node_modules.  The install
\* leaves any of node_modules and the targets behind; os.utime raises when
\* node_modules is not there.
NPMRunInstall ==
    /\ AtTop("jsdeps", "install?")
    /\ node_modules_exists' = (node_modules \in fs)
    /\ \E vrc \in ReturnCodes, rc \in ReturnCodes,
          disk \in SUBSET (Range(targets) \cup { node_modules }) :
         LET vargv == << get_npm_name(system), "--version" >>
             verr  == check_call(vargv, npm_installed, vrc)
             argv  == << get_npm_name(system), "install" >>
             err   == check_call(argv, npm_installed, rc)
         IN  /\ should_run_npm_install(npm_installed, vrc, node_modules \in fs)
             /\ check_calls' = check_calls
                    \o << Invocation(vargv, ".", verr),
                          Invocation(argv, NODE_ROOT, err) >>
             /\ fs' = IF npm_installed THEN disk ELSE fs
             /\ logs' = Append(logs, Log("info",
                            "Installing build dependencies with npm.", << >>))
             /\ IF err # NoError
                THEN Raise(err) /\ calls' = calls
                ELSE IF node_modules \notin fs'
                THEN Raise(Error("FileNotFoundError", << node_modules >>))
                     /\ calls' = calls
                ELSE /\ calls' = Append(calls, "utime")
                     /\ stack' = SetTop(stack, [ Top EXCEPT !.pc = "build" ])
                     /\ UNCHANGED << pc, raised, npm_run, npm_exc >>
    /\ UNCHANGED << world, cmdline, command, have_run, mark, has_npm, env,
                    checked >>

\* variant of NPMRunBuild with the build under the `else` of the install
NPMRunBuildElse ==
    /\ AtTop("jsdeps", "build")
    /\ IF calls # << >> /\ calls[Len(calls)] = "utime"
       THEN /\ stack' = SetTop(stack, [ Top EXCEPT !.pc = "verify" ])
            /\ UNCHANGED << fs, check_calls, pc, raised, npm_run, npm_exc >>
       ELSE \E rc \in ReturnCodes, out \in SUBSET Range(targets) :
              LET argv == << get_npm_name(system), "run", "build" >>
                  err  == check_call(argv, npm_installed, rc)
              IN  /\ check_calls' = Append(check_calls,
                                           Invocation(argv, NODE_ROOT, err))
                  /\ fs' = IF npm_installed
                           THEN (fs \ Range(targets)) \cup out
                           ELSE fs
                  /\ IF err # NoError
                     THEN Raise(err)
                     ELSE /\ stack' = SetTop(stack, [ Top EXCEPT !.pc = "verify" ])
                          /\ UNCHANGED << pc, raised, npm_run, npm_exc >>
    /\ UNCHANGED << world, cmdline, command, have_run, calls, mark, logs,
                    npm_locals, checked >>

\* lines 147-149: `npm run build`, whatever has_npm was.  A build that was
\* started may write or remove the target files.
NPMRunBuild ==
    /\ AtTop("jsdeps", "build")
    /\ \E rc \in ReturnCodes, out \in SUBSET Range(targets) :
         LET argv == << get_npm_name(system), "run", "build" >>
             err  == check_call(argv, npm_installed, rc)
         IN  /\ check_calls' = Append(check_calls, Invocation(argv, NODE_ROOT, err))
             /\ fs' = IF npm_installed
                      THEN (fs \ Range(targets)) \cup out
                      ELSE fs
             /\ IF err # NoError
                THEN Raise(err)
                ELSE /\ stack' = SetTop(stack, [ Top EXCEPT !.pc = "verify" ])
                     /\ UNCHANGED << pc, raised, npm_run, npm_exc >>
    /\ UNCHANGED << world, cmdline, command, have_run, calls, mark, logs,
                    npm_locals, checked >>

\* lines 151-160
NPMRunVerify ==
    /\ AtTop("jsdeps", "verify")
    /\ LET err == verify_targets(fs, has_npm)
           n   == Len(stack)
       IN  IF err # NoError
           THEN /\ Raise(err)
                /\ checked' = "some_missing"
                /\ calls' = calls
           ELSE /\ checked' = "all_present"
                /\ calls' = Append(calls, "update_package_data")
                /\ npm_run' = "returned"
                /\ stack' = IF n > 1
                            THEN [ stack EXCEPT ![n].pc = "return",
                                                ![n].checked = "all_present",
                                                ![n - 1].checked = "all_present" ]
                            ELSE [ stack EXCEPT ![n].pc = "return",
                                                ![n].checked = "all_present" ]
                /\ UNCHANGED << pc, raised, npm_exc >>
    /\ UNCHANGED << world, fs, cmdline, command, have_run, check_calls, mark,
                    logs, npm_locals >>

Next ==
    \/ \E cl \in CmdLines : Invoke(cl)
    \/ RunCommands
    \/ Return
    \/ BuildRun
    \/ DecoratedRunDirect
    \/ DecoratedRunDirectCommand
    \/ DecoratedRunJsdeps
    \/ DecoratedRunExcept
    \/ DecoratedRunCommand
    \/ DecoratedRunFinish
    \/ NPMRunHasNpm
    \/ NPMRunSkipInstall
    \/ NPMRunInstall
    \/ NPMRunBuild
    \/ NPMRunVerify

Spec == Init /\ [][Next]_vars

TypeOK ==
    /\ pc \in { "idle", "run", "done", "raised" }
    /\ command \in Commands \cup { "none" }
    /\ checked \in { "none", "all_present", "some_missing" }
    /\ npm_run \in { "none", "active", "returned", "raised" }
    /\ Len(stack) <= 4
    /\ \A i \in DOMAIN stack : stack[i].ran \in 0..1

----------------------------------------------------------------------------
(* Vocabulary of the properties *)

Count(x) == Cardinality({ i \in DOMAIN calls : calls[i] = x })

AllTargets == \A i \in DOMAIN targets : targets[i] \in fs

FirstAbsent ==
    targets[CHOOSE i \in DOMAIN targets :
                /\ targets[i] \notin fs
                /\ \A j \in DOMAIN targets : j < i => targets[j] \in fs]

DecoratedFrames == { i \in DOMAIN stack : decorated(stack[i].cmd) }

\* check_calls of the latest NPM.run
RunCalls == { i \in DOMAIN check_calls : i > mark }

InstallCalls == { i \in RunCalls : check_calls[i].args[2] = "install" }

BuildCalls == { i \in RunCalls : check_calls[i].args[2] = "run" }

\* the latest NPM.run has evaluated should_run_npm_install() (line 137)
PastInstallDecision == npm_run # "none" /\ Len(check_calls) >= mark + 2

\* the has_npm() of should_run_npm_install (line 122) returned True
InstallCheckFound == check_calls[mark + 2].error = "None"

\* the latest NPM.run is past line 149, or has raised before reaching it
PastBuildStep == PastInstallDecision /\ ~AtTop("jsdeps", "build")

\* the latest NPM.run is over, by returning or by raising
JsdepsOver == npm_run \in { "returned", "raised" }

InstallRaised ==
    \/ \E i \in InstallCalls : check_calls[i].error # "None"
    \/ npm_exc = Error("FileNotFoundError", << node_modules >>)

BuildReturned == \E i \in BuildCalls : check_calls[i].error = "None"

----------------------------------------------------------------------------
(* C1 *)

\* C1: whenever both target files exist and npm is unavailable, a decorated
\* step (build_py, egg_info, sdist), in a repository or not, does not raise.
\* The code fails it for the strict sdist in a repository: NPM.run calls
\* `npm run build` though npm is unavailable (line 147, see C7), the
\* check_call raises with no target missing, and the strict step re-raises.
C1_Claim ==
    (decorated(command) /\ ~npm_installed /\ AllTargets) => pc # "raised"

----------------------------------------------------------------------------
(* C2 *)

\* C2 as stated: a strict step that ends with a target file missing raises,
\* does not run the wrapped command, and the error raised identifies a
\* missing file, whether the build subprocess failed or succeeded.
C2_Original ==
    (pc = "raised" /\ strict(Top.cmd) /\ ~AllTargets)
        => /\ Top.ran = 0
           /\ \E i \in DOMAIN targets :
                targets[i] \notin fs /\ targets[i] \in Range(raised.args)

\* C2, amended: a strict step never runs the wrapped command with a target
\* file missing: it raises the error of jsdeps unchanged.  That error names a
\* missing file (the first one absent) exactly when the build subprocess
\* returned without error, and is the subprocess's own error otherwise.
C2_StrictMissingRaises ==
    /\ \A i \in DOMAIN stack :
         (strict(stack[i].cmd) /\ stack[i].pc \notin { "entry", "try", "except", "raised" })
            => AllTargets
    /\ (pc = "raised" /\ strict(Top.cmd) /\ ~AllTargets)
        => /\ Top.ran = 0
           /\ Top.pc = "raised"
           /\ raised = Top.exc
           /\ raised = npm_exc
           /\ raised # NoError
           /\ IF BuildReturned
              THEN /\ raised.type = "ValueError"
                   /\ raised.args[2] = FirstAbsent
              ELSE /\ raised.type \in { "CalledProcessError", "FileNotFoundError" }
                   /\ \A i \in DOMAIN targets : targets[i] \notin Range(raised.args)

C2_Witness ==
    /\ pc = "raised"
    /\ Top.cmd = "sdist"
    /\ BuildReturned
    /\ targets[1] \in fs
    /\ targets[2] \notin fs
    /\ raised.type = "ValueError"
    /\ targets[2] \in Range(raised.args)

----------------------------------------------------------------------------
(* C3 *)

\* C3: when jsdeps raises inside a decorated step, the failure is tolerated
\* (logged, wrapped command run afterwards) iff the step is not strict and
\* every target exists at that moment; otherwise the same error is re-raised
\* and the wrapped command is not run.
C3_ToleratedIff ==
    \A i \in DecoratedFrames :
        LET f == stack[i]
        IN  f.exc # NoError
              => /\ f.pc \in { "except", "command.run", "wrapped", "finish",
                               "return", "raised" }
                 /\ f.pc = "command.run"
                      => /\ ~strict(f.cmd)
                         /\ AllTargets
                         /\ f.ran = 0
                         /\ logs[Len(logs) - 1].msg
                                = "rebuilding js and css failed (not a problem)"
                         /\ logs[Len(logs)].args = f.exc.args
                 /\ f.pc \in { "wrapped", "finish", "return" }
                      => (~strict(f.cmd) /\ f.ran = 1)
                 /\ f.pc = "raised"
                      => /\ strict(f.cmd) \/ ~AllTargets
                         /\ pc = "raised"
                         /\ raised = f.exc
                         /\ f.ran = 0

C3_Witness ==
    /\ AtTop("egg_info", "return")
    /\ Top.exc.type = "CalledProcessError"
    /\ Top.ran = 1

----------------------------------------------------------------------------
(* C4 *)

\* C4 as stated: in every decorated run the wrapped command's run is preceded
\* by an invocation of jsdeps.
C4_Original ==
    \A i \in DecoratedFrames : stack[i].ran > 0 => stack[i].tried # "no"

\* C4, amended: the wrapped command's run is preceded, in the same decorated
\* run, by a call of run_command('jsdeps'), which executes NPM.run unless
\* jsdeps has already completed in the process; except outside a repository
\* when every target file exists at entry: then the wrapped command runs
\* directly and jsdeps is not invoked.
C4_JsdepsFirst ==
    \A i \in DecoratedFrames :
        LET f == stack[i]
        IN  f.ran > 0
              => CASE f.tried = "no" ->
                        /\ ~IS_REPO
                        /\ AllTargets
                        /\ f.pc \in { "wrapped_direct", "return" }
                   [] f.tried = "skipped" ->
                        /\ "jsdeps" \in have_run
                        /\ f.pc \in { "wrapped", "finish", "return" }
                   [] OTHER ->
                        /\ f.tried = "ran"
                        /\ npm_run # "none"
                        /\ f.pc \in { "wrapped", "finish", "return" }

C4_Witness ==
    /\ AtTop("sdist", "return")
    /\ Top.tried = "ran"
    /\ Top.ran = 1
    /\ calls = << "jsdeps", "update_package_data", "command.run",
                  "command.run", "update_package_data", "update_package_data" >>

----------------------------------------------------------------------------
(* C5 *)

\* C5: `npm install` is invoked only when js/node_modules was absent at the
\* check and the tool-presence check of should_run_npm_install found npm; it
\* is skipped when the directory exists or that check reports npm
\* unavailable; the directory is touched only after an install that returned
\* successfully.
C5_InstallOnlyWhenAbsent ==
    /\ InstallCalls # {} => (~node_modules_exists /\ InstallCheckFound)
    /\ Cardinality(InstallCalls) <= 1
    /\ (PastInstallDecision /\ (node_modules_exists \/ ~InstallCheckFound))
          => InstallCalls = {}
    /\ (PastInstallDecision /\ ~node_modules_exists /\ InstallCheckFound)
          => InstallCalls # {}
    /\ Count("utime") <= Cardinality({ i \in DOMAIN check_calls :
                                         /\ check_calls[i].args[2] = "install"
                                         /\ check_calls[i].error = "None" })
    /\ (calls # << >> /\ calls[Len(calls)] = "utime")
          => /\ \E i \in InstallCalls : check_calls[i].error = "None"
             /\ node_modules \in fs

C5_Witness ==
    /\ \E i \in InstallCalls : check_calls[i].error = "None"
    /\ calls[Len(calls)] = "utime"
    /\ ~node_modules_exists
    /\ ~has_npm
    /\ node_modules \in fs

----------------------------------------------------------------------------
(* C6 *)

\* C6 as stated: in every jsdeps run in which npm is available the build
\* subprocess is invoked, whatever the outcome of the install step.
C6_Original ==
    (PastBuildStep /\ has_npm) => BuildCalls # {}

\* C6, amended: in every jsdeps run the build subprocess is invoked once,
\* whether or not the install step was needed, provided the install step did
\* not raise; when `npm install` (or the os.utime after it) raises, that
\* error leaves the run and the build is not invoked.  An error of the build
\* subprocess leaves the jsdeps run.
C6_BuildUnlessInstallRaised ==
    PastBuildStep
        => /\ Cardinality(BuildCalls) <= 1
           /\ IF InstallRaised
              THEN /\ BuildCalls = {}
                   /\ npm_run = "raised"
                   /\ npm_exc # NoError
              ELSE BuildCalls # {}
           /\ \A i \in BuildCalls :
                check_calls[i].error # "None"
                    => /\ npm_run = "raised"
                       /\ npm_exc = Error(check_calls[i].error, check_calls[i].args)

C6_Witness ==
    /\ has_npm
    /\ \E i \in InstallCalls : check_calls[i].error = "None"
    /\ \E i \in BuildCalls : check_calls[i].error = "CalledProcessError"
    /\ command = "jsdeps"
    /\ pc = "raised"
    /\ raised.type = "CalledProcessError"

----------------------------------------------------------------------------
(* C7 *)

\* C7: a jsdeps run that found npm unavailable fails only at the missing-file
\* check, only if a target is missing, with the guidance text in the message;
\* with no target missing it ends without error.
C7_Claim ==
    (JsdepsOver /\ ~has_npm)
        => /\ AllTargets => npm_exc = NoError
           /\ npm_exc # NoError
                => /\ npm_exc.type = "ValueError"
                   /\ ~AllTargets
                   /\ Len(npm_exc.args) = 3

----------------------------------------------------------------------------
(* C8 *)

\* C8 as stated: once the build step has returned without error, the run
\* fails iff a target is absent, and its error names every absent target.
C8_Original ==
    (BuildReturned /\ JsdepsOver)
        => /\ npm_exc # NoError <=> ~AllTargets
           /\ npm_exc # NoError
                => /\ npm_exc.type = "ValueError"
                   /\ \A i \in DOMAIN targets :
                        targets[i] \notin fs => targets[i] \in Range(npm_exc.args)

\* C8, amended: once the build step has returned without error, the run
\* fails iff a target is absent, with a ValueError that names one file: the
\* first target, in the order of `targets`, that is absent (followed by the
\* npm guidance when has_npm was False); when every target is present the
\* run ends without error.
C8_VerifyNamesFirstAbsent ==
    (BuildReturned /\ JsdepsOver)
        => /\ npm_exc # NoError <=> ~AllTargets
           /\ npm_exc # NoError
                => /\ npm_run = "raised"
                   /\ npm_exc.type = "ValueError"
                   /\ npm_exc.args[1] = "Missing file: "
                   /\ npm_exc.args[2] = FirstAbsent
                   /\ Len(npm_exc.args) = IF has_npm THEN 2 ELSE 3
                   /\ \A i \in DOMAIN targets :
                        targets[i] # FirstAbsent
                            => targets[i] \notin Range(npm_exc.args)
           /\ npm_exc = NoError
                => /\ npm_run = "returned"
                   /\ calls[Len(calls)] \in { "update_package_data", "command.run" }

C8_Witness ==
    /\ BuildReturned
    /\ command = "jsdeps"
    /\ pc = "raised"
    /\ fs \cap Range(targets) = {}
    /\ raised = Error("ValueError", << "Missing file: ", targets[1] >>)

----------------------------------------------------------------------------
(* C9 *)

\* C9: every install and build subprocess of a jsdeps run is executed in js/
\* with the augmented search path (js/node_modules/.bin before PATH) taken
\* from a copy of the environment, and os.environ itself is left as it was.
C9_Claim ==
    /\ \A i \in DOMAIN check_calls :
         check_calls[i].args[2] \in { "install", "run" }
            => /\ check_calls[i].cwd = NODE_ROOT
               /\ check_calls[i].env.PATH = NPM_PATH
    /\ os_environ.PATH \in Paths

----------------------------------------------------------------------------
(* C10 *)

\* C10 as stated: the wrapped command's run is executed at most once per
\* decorated run, and only when the latest existence check of that run found
\* every target present.
C10_Original ==
    \A i \in DecoratedFrames :
        /\ stack[i].ran <= 1
        /\ stack[i].pc \in { "direct", "command.run" }
              => (stack[i].checked = "all_present" /\ AllTargets)

\* C10, amended: the wrapped command's run is executed at most once per
\* decorated run, and only when the latest existence check of the process
\* found every target present; that check belongs to the same decorated run
\* unless jsdeps had already completed in the process and the checkout is a
\* repository, in which case the run makes no check of its own.  The wrapped
\* command never starts with a target file missing.
C10_WrappedOnlyWithTargets ==
    \A i \in DecoratedFrames :
        LET f == stack[i]
        IN  /\ f.ran <= 1
            /\ f.pc \in { "direct", "command.run" }
                 => /\ f.ran = 0
                    /\ AllTargets
                    /\ checked = "all_present"
                    /\ f.checked \in { "all_present", "none" }
                    /\ f.checked = "none" => (IS_REPO /\ f.tried = "skipped")
            /\ f.pc \in { "wrapped", "wrapped_direct", "finish", "return" }
                 => f.ran = 1

C10_Witness ==
    /\ AtTop("build_py", "command.run")
    /\ IS_REPO
    /\ Top.tried = "ran"
    /\ BuildReturned
    /\ Top.exc = NoError
    /\ Top.checked = "all_present"
    /\ AllTargets

====
